---- MODULE Spec2Model ----
(***************************************************************************)
(* CloudContext Python client (clients/python/client.py).                  *)
(*                                                                         *)
(* The client holds three configuration fields and a session handle, and   *)
(* offers __aenter__/__aexit__ and four coroutines (save, get, delete,     *)
(* list).  Each coroutine runs synchronously up to the await of the HTTP   *)
(* call (the request is handed to the session) and is resumed once with    *)
(* the response or with the transport's exception.                         *)
(***************************************************************************)
EXTENDS Integers, Sequences, FiniteSets, TLC

VARIABLES
    ctor,        \* the arguments the client was constructed with
    base_url,    \* self.base_url: a sequence of characters/tokens
    api_key,     \* self.api_key
    context_id,  \* self.context_id, the default context identifier
    session,     \* self.session: None or the id of a created session
    closes,      \* closes[s]: number of close() calls on created session s
    scopes,      \* sessions created by the scope entries not yet exited
    lastExit,    \* how the scope was last left: "none", "normal", "exceptional"
    calls        \* calls[t]: the current or last invocation of caller t

vars == <<ctor, base_url, api_key, context_id, session, closes, scopes, lastExit, calls>>

----------------------------------------------------------------------------
(* Bounds of the model *)

MaxSessions == 2   \* sessions created over a run
MaxDepth == 2      \* scope entries open at the same time
NumSaves == 2      \* save calls issued concurrently (SpecConc)

----------------------------------------------------------------------------
(* Python values: None, str and dict, with Python's truth value and `or` *)

PyNone == [t |-> "None"]

PyStr(s) == [t |-> "str", s |-> s]

PyDict(d) == [t |-> "dict", d |-> d]

EmptyDict == PyDict(<<>>)

PyBool(b) == [t |-> "bool", b |-> b]

\* bool(v): None, "" and {} are false
Truthy(v) ==
    CASE v.t = "None" -> FALSE
      [] v.t = "str" -> v.s # ""
      [] v.t = "dict" -> DOMAIN v.d # {}
      [] OTHER -> TRUE

\* a or b
PyOr(a, b) == IF Truthy(a) THEN a ELSE b

\* self.session = None
None == 0

----------------------------------------------------------------------------
(* Construction *)

\* RStrip removing one trailing ch only
RStripOne(s, ch) ==
    IF s # <<>> /\ s[Len(s)] = ch THEN SubSeq(s, 1, Len(s) - 1) ELSE s

RECURSIVE RStrip(_, _)
\* str.rstrip(ch): every trailing ch is removed
RStrip(s, ch) ==
    IF s # <<>> /\ s[Len(s)] = ch THEN RStrip(SubSeq(s, 1, Len(s) - 1), ch) ELSE s

\* the declared default of the context_id parameter of __init__
DefaultContextId == "default"

BaseUrls == {<<"https://x.test", "/">>}

ApiKeys == {"key"}

\* the context_id argument of the constructor: omitted (None) or given
ContextIdArgs == {PyNone, PyStr("ctx")}

InitClient(url, key, ctx) ==
    /\ ctor = [base_url |-> url, api_key |-> key, context_id |-> ctx]
    /\ base_url = RStrip(url, "/")
    /\ api_key = key
    /\ context_id = IF ctx = PyNone THEN DefaultContextId ELSE ctx.s
    /\ session = None

----------------------------------------------------------------------------
(* Requests *)

ContextPath == <<"/", "api", "/", "context">>

ListPath == <<"/", "api", "/", "context", "/", "list">>

\* f'Bearer {self.api_key}'
Bearer(key) == <<"Bearer ", key>>

\* ctx_id = context_id or self.context_id
EffectiveContextId(arg) == PyOr(arg, PyStr(context_id)).s

\* the headers of save, get and delete
ContextHeaders(arg) ==
    ("Authorization" :> Bearer(api_key)) @@ ("X-Context-ID" :> EffectiveContextId(arg))

\* the headers of list
ListHeaders == ("Authorization" :> Bearer(api_key))

\* SavePayload with the `or {}` left out: an omitted metadata is sent as null
SavePayloadNoDefault(content, metadata) == [content |-> content, metadata |-> metadata]

\* payload = {'content': content, 'metadata': metadata or {}}
SavePayload(content, metadata) ==
    [content |-> content, metadata |-> PyOr(metadata, EmptyDict)]

\* a call of self.session.<method>(url, **kwargs)
Request(method, url, kwargs) ==
    [session |-> session, closed |-> session # None /\ closes[session] > 0,
     method |-> method, url |-> url, kwargs |-> kwargs]

SaveRequest(content, metadata, arg) ==
    Request("post", base_url \o ContextPath,
            [headers |-> ContextHeaders(arg), json |-> SavePayload(content, metadata)])

GetRequest(arg) ==
    Request("get", base_url \o ContextPath, [headers |-> ContextHeaders(arg)])

DeleteRequest(arg) ==
    Request("delete", base_url \o ContextPath, [headers |-> ContextHeaders(arg)])

ListRequest == Request("get", base_url \o ListPath, [headers |-> ListHeaders])

----------------------------------------------------------------------------
(* Responses *)

\* resp.status
Statuses == {200, 201, 204, 400, 500}

\* response body texts the server may send
TextSave == "{success:true,context_id:c,version:1,timestamp:T}"

TextSaveV2 == "{success:true,context_id:c,version:2,timestamp:T}"

TextSaveExtra == "{success:true,context_id:c,version:1,timestamp:T,extra:1}"

TextSaveMissing == "{success:true,context_id:c,version:1}"

TextList == "{contexts:[a,b]}"

TextListEmpty == "{contexts:[]}"

TextArray == "[a,b]"

TextForbidden == "Forbidden"

Bodies ==
    {TextSave, TextSaveExtra, TextSaveMissing, TextList, TextListEmpty, TextArray,
     TextForbidden}

Responses == [kind : {"response"}, status : Statuses, body : Bodies]

\* exceptions of the transport (aiohttp.ClientError, asyncio.TimeoutError)
TransportErrors == [kind : {"error"}, type : {"ClientError", "TimeoutError"}]

NoResponse == [kind |-> "none"]

PyList(l) == [t |-> "list", l |-> l]

\* await resp.json(): the parsed body, or a failure when the text is not JSON
Json(text) ==
    CASE text = TextSave ->
           [ok |-> TRUE,
            val |-> PyDict([success |-> TRUE, context_id |-> "c", version |-> 1,
                            timestamp |-> "T"])]
      [] text = TextSaveV2 ->
           [ok |-> TRUE,
            val |-> PyDict([success |-> TRUE, context_id |-> "c", version |-> 2,
                            timestamp |-> "T"])]
      [] text = TextSaveExtra ->
           [ok |-> TRUE,
            val |-> PyDict([success |-> TRUE, context_id |-> "c", version |-> 1,
                            timestamp |-> "T", extra |-> 1])]
      [] text = TextSaveMissing ->
           [ok |-> TRUE,
            val |-> PyDict([success |-> TRUE, context_id |-> "c", version |-> 1])]
      [] text = TextList -> [ok |-> TRUE, val |-> PyDict([contexts |-> <<"a", "b">>])]
      [] text = TextListEmpty -> [ok |-> TRUE, val |-> PyDict([contexts |-> <<>>])]
      [] text = TextArray -> [ok |-> TRUE, val |-> PyList(<<"a", "b">>)]
      [] OTHER -> [ok |-> FALSE, val |-> PyNone]

----------------------------------------------------------------------------
(* Outcomes of a call *)

NoExc == [type |-> "none", args |-> <<>>]

Exc(type, args) == [type |-> type, args |-> args]

\* return v, after the body reads `reads`
Returned(v, reads) == [pc |-> "returned", val |-> v, exc |-> NoExc, reads |-> reads]

\* raise exc, after the body reads `reads`
Raised(exc, reads) == [pc |-> "raised", val |-> PyNone, exc |-> exc, reads |-> reads]

\* f"{prefix}{text}"
FString(prefix, text) == [t |-> "str", parts |-> <<prefix, text>>]

\* Failed raising Exception(message, resp.status)
FailedWithStatus(prefix, r) ==
    Raised(Exc("Exception", <<FString(prefix, r.body), [t |-> "int", i |-> r.status]>>),
           <<"text">>)

\* raise Exception(f"{prefix}{await resp.text()}"): the message is the one argument
Failed(prefix, r) ==
    Raised(Exc("Exception", <<FString(prefix, r.body)>>), <<"text">>)

\* IsFailure testing for the error statuses only
IsFailureFrom400(r) == r.status >= 400

\* if resp.status != 200
IsFailure(r) == r.status # 200

\* the fields of the SaveResult dataclass
SaveResultFields == {"success", "context_id", "version", "timestamp"}

\* SaveResult(**data): the keywords must be exactly the dataclass fields
SaveResult(data) ==
    IF data.t = "dict" /\ DOMAIN data.d = SaveResultFields
    THEN Returned([t |-> "SaveResult", success |-> data.d.success,
                   context_id |-> data.d.context_id, version |-> data.d.version,
                   timestamp |-> data.d.timestamp], <<"json">>)
    ELSE Raised(Exc("TypeError", <<>>), <<"json">>)

\* Contexts treating an empty list as a missing key
ContextsNonEmpty(data) ==
    IF data.t # "dict" THEN Raised(Exc("TypeError", <<>>), <<"json">>)
    ELSE IF "contexts" \notin DOMAIN data.d \/ data.d.contexts = <<>>
         THEN Raised(Exc("KeyError", <<PyStr("contexts")>>), <<"json">>)
    ELSE Returned(PyList(data.d.contexts), <<"json">>)

\* data['contexts']
Contexts(data) ==
    IF data.t # "dict" THEN Raised(Exc("TypeError", <<>>), <<"json">>)
    ELSE IF "contexts" \notin DOMAIN data.d THEN Raised(Exc("KeyError", <<PyStr("contexts")>>), <<"json">>)
    ELSE Returned(PyList(data.d.contexts), <<"json">>)

\* resp.json() raising on a body that is not JSON
DecodeFailure == Raised(Exc("JSONDecodeError", <<>>), <<"json">>)

SaveResponse(r) ==
    IF IsFailure(r) THEN Failed("Failed to save context: ", r)
    ELSE IF ~Json(r.body).ok THEN DecodeFailure
    ELSE SaveResult(Json(r.body).val)

GetResponse(r) ==
    IF IsFailure(r) THEN Failed("Failed to get context: ", r)
    ELSE IF ~Json(r.body).ok THEN DecodeFailure
    ELSE Returned(Json(r.body).val, <<"json">>)

DeleteResponse(r) ==
    IF IsFailure(r) THEN Failed("Failed to delete context: ", r)
    ELSE Returned(PyBool(TRUE), <<>>)

\* ListResponse with the message of the other operations' pattern
ListResponseSingular(r) ==
    IF IsFailure(r) THEN Failed("Failed to list context: ", r)
    ELSE IF ~Json(r.body).ok THEN DecodeFailure
    ELSE Contexts(Json(r.body).val)

ListResponse(r) ==
    IF IsFailure(r) THEN Failed("Failed to list contexts: ", r)
    ELSE IF ~Json(r.body).ok THEN DecodeFailure
    ELSE Contexts(Json(r.body).val)

\* the transport's exception propagates out of the call
TransportFailure(r) == Raised(Exc(r.type, <<>>), <<>>)

----------------------------------------------------------------------------
(* State of the callers *)

Idle ==
    [pc |-> "idle", op |-> "none", args |-> <<>>, session |-> None, sent |-> <<>>,
     resp |-> NoResponse, val |-> PyNone, exc |-> NoExc, reads |-> <<>>]

\* Start that hands the request over whether or not a session is set
StartUnchecked(op, args, req) ==
    [pc |-> "awaiting", op |-> op, args |-> args, session |-> session,
     sent |-> <<req>>, resp |-> NoResponse, val |-> PyNone, exc |-> NoExc,
     reads |-> <<>>]

\* self.session.<method>(...): with no session the attribute lookup on None raises
\* before any request is built; otherwise the request is handed to the session
Start(op, args, req) ==
    IF session = None
    THEN [pc |-> "raised", op |-> op, args |-> args, session |-> None, sent |-> <<>>,
          resp |-> NoResponse, val |-> PyNone, exc |-> Exc("AttributeError", <<>>),
          reads |-> <<>>]
    ELSE [pc |-> "awaiting", op |-> op, args |-> args, session |-> session,
          sent |-> <<req>>, resp |-> NoResponse, val |-> PyNone, exc |-> NoExc,
          reads |-> <<>>]

\* Finish that sends the request again and keeps waiting when the outcome is a failure
FinishResending(c, r, out) ==
    IF out.pc = "raised"
    THEN [c EXCEPT !.sent = Append(@, c.sent[1])]
    ELSE [c EXCEPT !.pc = out.pc, !.resp = r, !.val = out.val, !.exc = out.exc,
                   !.reads = out.reads]

\* the call is resumed with r and ends with outcome `out`
Finish(c, r, out) ==
    [c EXCEPT !.pc = out.pc, !.resp = r, !.val = out.val, !.exc = out.exc,
              !.reads = out.reads]

\* whether an exception may be propagating when the scope is left: a call in the
\* scope's body has raised
Propagating == {FALSE} \cup {calls[t].pc = "raised" : t \in DOMAIN calls}

----------------------------------------------------------------------------
(* Inputs *)

Contents == {PyDict(<<>>), PyDict([k |-> 1])}

Metadatas == {PyNone, EmptyDict, PyDict([tag |-> "t"])}

\* the context_id argument of a call: omitted (None) or a string
ContextIds == {PyNone, PyStr(""), PyStr("c1")}

----------------------------------------------------------------------------
(* Operations *)

\* async with client: (entry)
Enter ==
    /\ Len(closes) < MaxSessions
    /\ Len(scopes) < MaxDepth
    /\ closes' = Append(closes, 0)
    /\ session' = Len(closes) + 1
    /\ scopes' = Append(scopes, Len(closes) + 1)
    /\ UNCHANGED <<ctor, base_url, api_key, context_id, lastExit, calls>>

\* CloseSession that releases the session on a normal exit only
CloseSessionOnNormalExit(exc) ==
    IF session # None /\ ~exc THEN [closes EXCEPT ![session] = @ + 1] ELSE closes

\* if self.session: await self.session.close()
CloseSession(exc) ==
    IF session # None THEN [closes EXCEPT ![session] = @ + 1] ELSE closes

\* async with client: (exit, with the exception type that is propagating)
Exit(exc) ==
    /\ scopes # <<>>
    /\ closes' = CloseSession(exc)
    /\ scopes' = SubSeq(scopes, 1, Len(scopes) - 1)
    /\ lastExit' = IF exc THEN "exceptional" ELSE "normal"
    /\ UNCHANGED <<ctor, base_url, api_key, context_id, session, calls>>

\* Save that keeps the effective identifier as the client's default
SaveRemembersContextId(t, content, metadata, arg) ==
    /\ calls[t].pc # "awaiting"
    /\ calls' = [calls EXCEPT ![t] =
                   Start("save", [content |-> content, metadata |-> metadata, context_id |-> arg],
                         SaveRequest(content, metadata, arg))]
    /\ context_id' = EffectiveContextId(arg)
    /\ UNCHANGED <<ctor, base_url, api_key, session, closes, scopes, lastExit>>

Save(t, content, metadata, arg) ==
    /\ calls[t].pc # "awaiting"
    /\ calls' = [calls EXCEPT ![t] =
                   Start("save", [content |-> content, metadata |-> metadata, context_id |-> arg],
                         SaveRequest(content, metadata, arg))]
    /\ UNCHANGED <<ctor, base_url, api_key, context_id, session, closes, scopes, lastExit>>

Get(t, arg) ==
    /\ calls[t].pc # "awaiting"
    /\ calls' = [calls EXCEPT ![t] = Start("get", [context_id |-> arg], GetRequest(arg))]
    /\ UNCHANGED <<ctor, base_url, api_key, context_id, session, closes, scopes, lastExit>>

Delete(t, arg) ==
    /\ calls[t].pc # "awaiting"
    /\ calls' = [calls EXCEPT ![t] = Start("delete", [context_id |-> arg], DeleteRequest(arg))]
    /\ UNCHANGED <<ctor, base_url, api_key, context_id, session, closes, scopes, lastExit>>

List(t) ==
    /\ calls[t].pc # "awaiting"
    /\ calls' = [calls EXCEPT ![t] = Start("list", <<>>, ListRequest)]
    /\ UNCHANGED <<ctor, base_url, api_key, context_id, session, closes, scopes, lastExit>>

\* the outcome of the call of `op` resumed with r
Response(op, r) ==
    CASE r.kind = "error" -> TransportFailure(r)
      [] op = "save" -> SaveResponse(r)
      [] op = "get" -> GetResponse(r)
      [] op = "delete" -> DeleteResponse(r)
      [] op = "list" -> ListResponse(r)

\* the awaited call of caller t is resumed with the response or the transport's exception
Resume(t, r) ==
    /\ calls[t].pc = "awaiting"
    /\ calls' = [calls EXCEPT ![t] = Finish(calls[t], r, Response(calls[t].op, r))]
    /\ UNCHANGED <<ctor, base_url, api_key, context_id, session, closes, scopes, lastExit>>

----------------------------------------------------------------------------
(* Specifications *)

\* one caller that issues its calls one after the other
Init ==
    /\ \E url \in BaseUrls, key \in ApiKeys, ctx \in ContextIdArgs : InitClient(url, key, ctx)
    /\ closes = <<>>
    /\ scopes = <<>>
    /\ lastExit = "none"
    /\ calls = [t \in {1} |-> Idle]

Next ==
    \/ Enter
    \/ \E exc \in Propagating : Exit(exc)
    \/ \E t \in DOMAIN calls, content \in Contents, metadata \in Metadatas, arg \in ContextIds :
          Save(t, content, metadata, arg)
    \/ \E t \in DOMAIN calls, arg \in ContextIds : Get(t, arg)
    \/ \E t \in DOMAIN calls, arg \in ContextIds : Delete(t, arg)
    \/ \E t \in DOMAIN calls : List(t)
    \/ \E t \in DOMAIN calls, r \in Responses \cup TransportErrors : Resume(t, r)

Spec == Init /\ [][Next]_vars

\* NumSaves callers that each issue save calls on a client whose scope was entered
\* (the fan-out of test_concurrent_operations)
ConcContents == {PyDict([k |-> 1]), PyDict([k |-> 2])}

ConcMetadatas == {PyNone, PyDict([tag |-> "t"])}

ConcContextIds == {PyStr(""), PyStr("c1"), PyStr("default")}

ConcResponses ==
    {[kind |-> "response", status |-> 200, body |-> TextSave],
     [kind |-> "response", status |-> 200, body |-> TextSaveV2],
     [kind |-> "response", status |-> 500, body |-> TextForbidden]}

InitConc ==
    /\ \E url \in BaseUrls, key \in ApiKeys, ctx \in ContextIdArgs : InitClient(url, key, ctx)
    /\ closes = <<>>
    /\ scopes = <<>>
    /\ lastExit = "none"
    /\ calls = [t \in 1..NumSaves |-> Idle]

NextConc ==
    \/ session = None /\ Enter
    \/ \E t \in DOMAIN calls, content \in ConcContents, metadata \in ConcMetadatas,
          arg \in ConcContextIds :
          session # None /\ Save(t, content, metadata, arg)
    \/ \E t \in DOMAIN calls, r \in ConcResponses : Resume(t, r)

SpecConc == InitConc /\ [][NextConc]_vars

\* construction over a wider set of arguments, followed by scope entries and by
\* get and list calls without an identifier
CtorUrls ==
    {<<"https://x.test">>, <<"https://x.test", "/">>, <<"https://x.test", "/", "/">>,
     <<"https://x.test", "/", "v1">>}

CtorKeys == {"key", "key/"}

CtorContextIds == {PyNone, PyStr("ctx"), PyStr("")}

CtorResponses ==
    {[kind |-> "response", status |-> 200, body |-> TextList],
     [kind |-> "response", status |-> 500, body |-> TextForbidden]}

InitCtor ==
    /\ \E url \in CtorUrls, key \in CtorKeys, ctx \in CtorContextIds : InitClient(url, key, ctx)
    /\ closes = <<>>
    /\ scopes = <<>>
    /\ lastExit = "none"
    /\ calls = [t \in {1} |-> Idle]

NextCtor ==
    \/ Enter
    \/ \E t \in DOMAIN calls : Get(t, PyNone)
    \/ \E t \in DOMAIN calls : List(t)
    \/ \E t \in DOMAIN calls, r \in CtorResponses : Resume(t, r)

SpecCtor == InitCtor /\ [][NextCtor]_vars

----------------------------------------------------------------------------
(* Properties *)

Callers == DOMAIN calls

\* the callers whose call handed a request to the session
Sending == {t \in Callers : calls[t].sent # <<>>}

\* the callers whose call was resumed with an HTTP response
Answered == {t \in Callers : calls[t].resp.kind = "response"}

\* the message of the error of operation op on body text
FailureText(op, text) ==
    CASE op = "save" -> [t |-> "str", parts |-> <<"Failed to save context: ", text>>]
      [] op = "get" -> [t |-> "str", parts |-> <<"Failed to get context: ", text>>]
      [] op = "delete" -> [t |-> "str", parts |-> <<"Failed to delete context: ", text>>]
      [] op = "list" -> [t |-> "str", parts |-> <<"Failed to list contexts: ", text>>]

\* C1: every save made while a session is held hands exactly one POST to
\* '{base}/api/context' whose JSON body is {content, metadata}, the metadata being
\* the empty mapping when omitted and the content the argument unchanged.
SaveSendsOnePost ==
    \A t \in Callers :
        (calls[t].op = "save" /\ calls[t].session # None) =>
            /\ Len(calls[t].sent) = 1
            /\ calls[t].sent[1].method = "post"
            /\ calls[t].sent[1].url = base_url \o <<"/", "api", "/", "context">>
            /\ calls[t].sent[1].kwargs.json =
                  [content |-> calls[t].args.content,
                   metadata |-> IF calls[t].args.metadata = PyNone
                                THEN PyDict(<<>>)
                                ELSE calls[t].args.metadata]

\* a save without metadata was sent on a held session and has returned
SaveSendsOnePostWitness ==
    \E t \in Callers :
        /\ calls[t].op = "save"
        /\ calls[t].args.metadata = PyNone
        /\ calls[t].args.content = PyDict([k |-> 1])
        /\ calls[t].session # None
        /\ calls[t].pc = "returned"

\* C2: save, get and delete send the X-Context-ID header equal to the explicit
\* argument whenever one is supplied (the empty string included) and equal to the
\* configured default otherwise; list sends no X-Context-ID header.
HeaderIsExplicitArgument ==
    \A t \in Sending :
        IF calls[t].op = "list"
        THEN "X-Context-ID" \notin DOMAIN calls[t].sent[1].kwargs.headers
        ELSE calls[t].sent[1].kwargs.headers["X-Context-ID"] =
                IF calls[t].args.context_id = PyNone
                THEN context_id
                ELSE calls[t].args.context_id.s

\* C3: a response of status >= 400 makes the call raise, with no result, the error
\* whose message is 'Failed to <verb> context(s): <body text>'; the body is read as
\* text and never parsed as JSON.
FailureMessage ==
    \A t \in Answered :
        calls[t].resp.status >= 400 =>
            /\ calls[t].pc = "raised"
            /\ calls[t].val = PyNone
            /\ calls[t].exc.args = <<FailureText(calls[t].op, calls[t].resp.body)>>
            /\ "json" \notin {calls[t].reads[i] : i \in DOMAIN calls[t].reads}

\* a list call answered 500 has raised
FailureMessageWitness ==
    \E t \in Answered :
        /\ calls[t].op = "list"
        /\ calls[t].resp.status = 500
        /\ calls[t].resp.body = TextForbidden
        /\ calls[t].pc = "raised"

\* the call of caller t ended with the request-failure error
RequestFailure(t) ==
    /\ calls[t].pc = "raised"
    /\ calls[t].exc.type = "Exception"
    /\ calls[t].exc.args = <<FailureText(calls[t].op, calls[t].resp.body)>>

\* C4 as stated: the call fails with the request-failure error exactly when the
\* status is not a success status, a success status being any 2xx.
FailsExactlyOnNonSuccess ==
    \A t \in Answered :
        RequestFailure(t) <=> ~(calls[t].resp.status >= 200 /\ calls[t].resp.status < 300)

\* C4 as amended: the call fails with the request-failure error exactly when the
\* status is not 200; a 200 yields a returned result or a decode failure.
FailsExactlyOnNon200 ==
    \A t \in Answered :
        /\ RequestFailure(t) <=> calls[t].resp.status # 200
        /\ calls[t].resp.status = 200 =>
              \/ calls[t].pc = "returned"
              \/ /\ calls[t].pc = "raised"
                 /\ calls[t].exc.type \in {"JSONDecodeError", "TypeError", "KeyError"}

\* a delete answered 201 and a get answered 204 end with the request-failure error
FailsExactlyOnNon200Witness ==
    \E t \in Answered :
        /\ calls[t].op \in {"delete", "get"}
        /\ calls[t].resp.status \in {201, 204}
        /\ RequestFailure(t)

\* C5 as stated: the error on a non-success status is a RequestFailed value that
\* carries the status code and the raw body text.
ErrorCarriesStatus ==
    \A t \in Answered :
        calls[t].resp.status >= 400 =>
            /\ calls[t].pc = "raised"
            /\ \E i \in DOMAIN calls[t].exc.args :
                  calls[t].exc.args[i] = [t |-> "int", i |-> calls[t].resp.status]

\* C5 as amended: the error on a non-200 status is a plain Exception whose single
\* argument is the message, which ends with the raw body text; no status code is
\* among its arguments.
ErrorCarriesMessageOnly ==
    \A t \in Answered :
        calls[t].resp.status # 200 =>
            /\ calls[t].pc = "raised"
            /\ calls[t].exc.type = "Exception"
            /\ Len(calls[t].exc.args) = 1
            /\ calls[t].exc.args[1].t = "str"
            /\ calls[t].exc.args[1].parts[Len(calls[t].exc.args[1].parts)] = calls[t].resp.body

\* a save answered 400 with body text Forbidden has raised
ErrorCarriesMessageOnlyWitness ==
    \E t \in Answered :
        /\ calls[t].op = "save"
        /\ calls[t].resp.status = 400
        /\ calls[t].resp.body = TextForbidden
        /\ calls[t].pc = "raised"

\* C6: on a success response save returns the SaveResult whose four fields are the
\* body's fields whenever the body is a JSON object that has all four (further
\* fields do not matter), and otherwise fails with a decode error, which is not
\* the request-failure error.
SaveDecodesBody ==
    \A t \in Answered :
        (calls[t].op = "save" /\ calls[t].resp.status = 200) =>
            IF /\ Json(calls[t].resp.body).ok
               /\ Json(calls[t].resp.body).val.t = "dict"
               /\ SaveResultFields \subseteq DOMAIN Json(calls[t].resp.body).val.d
            THEN /\ calls[t].pc = "returned"
                 /\ calls[t].val.success = Json(calls[t].resp.body).val.d.success
                 /\ calls[t].val.context_id = Json(calls[t].resp.body).val.d.context_id
                 /\ calls[t].val.version = Json(calls[t].resp.body).val.d.version
                 /\ calls[t].val.timestamp = Json(calls[t].resp.body).val.d.timestamp
            ELSE /\ calls[t].pc = "raised"
                 /\ calls[t].exc.type \in {"JSONDecodeError", "TypeError"}

\* the sessions whose scope has been left: created, and opened by no entry that is
\* still open
Exited == {s \in 1..Len(closes) : \A i \in DOMAIN scopes : scopes[i] # s}

\* C7: after a scope exit, normal or exceptional, the session that the matching
\* entry created has been closed exactly once.
ScopeExitClosesOnce == \A s \in Exited : closes[s] = 1

\* C8: while the scope has never been entered the client holds no session, and
\* every call made so far has raised the caller error with no request handed to
\* any session; and no step of a call creates a session or sets the client's.
CallsBeforeEntryFail ==
    /\ [](Len(closes) = 0 =>
            /\ session = None
            /\ \A t \in Callers :
                  calls[t].pc # "idle" =>
                      /\ calls[t].pc = "raised"
                      /\ calls[t].exc.type = "AttributeError"
                      /\ calls[t].sent = <<>>)
    /\ [][calls' # calls => (closes' = closes /\ session' = session)]_vars

\* a save or a list was called before any scope entry and has raised
CallsBeforeEntryFailWitness ==
    /\ Len(closes) = 0
    /\ \E t \in Callers :
          /\ calls[t].op \in {"save", "list"}
          /\ calls[t].pc = "raised"

\* the callers are running save calls with pairwise distinct context identifiers
\* and pairwise distinct bodies
DistinctSaves ==
    /\ \A t \in Callers : calls[t].op = "save"
    /\ \A t, u \in Callers :
          t # u =>
              /\ calls[t].args.context_id # calls[u].args.context_id
              /\ <<calls[t].args.content, calls[t].args.metadata>> #
                    <<calls[u].args.content, calls[u].args.metadata>>

\* C9: concurrent saves with pairwise distinct identifiers and bodies send one POST
\* each, carrying the call's own identifier and its own {content, metadata}, and a
\* call that returns returns the result decoded from its own response.
ConcurrentSavesIndependent ==
    DistinctSaves =>
        \A t \in Callers :
            /\ Len(calls[t].sent) = 1
            /\ calls[t].sent[1].method = "post"
            /\ calls[t].sent[1].kwargs.headers["X-Context-ID"] = calls[t].args.context_id.s
            /\ calls[t].sent[1].kwargs.json.content = calls[t].args.content
            /\ calls[t].sent[1].kwargs.json.metadata =
                  (IF calls[t].args.metadata = PyNone THEN PyDict(<<>>)
                   ELSE calls[t].args.metadata)
            /\ calls[t].pc = "returned" =>
                  calls[t].val.version = Json(calls[t].resp.body).val.d.version

\* C10: list hands one GET to '{base}/api/context/list' with the Authorization
\* header alone, and on a 200 response whose JSON body has the key contexts returns
\* the sequence stored there, same elements in the same order, the empty one too.
ListReturnsContexts ==
    \A t \in Sending :
        calls[t].op = "list" =>
            /\ Len(calls[t].sent) = 1
            /\ calls[t].sent[1].method = "get"
            /\ calls[t].sent[1].url = base_url \o <<"/", "api", "/", "context", "/", "list">>
            /\ DOMAIN calls[t].sent[1].kwargs = {"headers"}
            /\ calls[t].sent[1].kwargs.headers = ("Authorization" :> <<"Bearer ", api_key>>)
            /\ (calls[t].resp = [kind |-> "response", status |-> 200, body |-> TextList]) =>
                  /\ calls[t].pc = "returned"
                  /\ calls[t].val = [t |-> "list", l |-> <<"a", "b">>]
            /\ (calls[t].resp = [kind |-> "response", status |-> 200, body |-> TextListEmpty]) =>
                  /\ calls[t].pc = "returned"
                  /\ calls[t].val = [t |-> "list", l |-> <<>>]

\* a list call answered 200 with an empty contexts array has returned
ListReturnsContextsWitness ==
    \E t \in Sending :
        /\ calls[t].op = "list"
        /\ calls[t].resp = [kind |-> "response", status |-> 200, body |-> TextListEmpty]
        /\ calls[t].pc = "returned"

\* the callers whose call was resumed with an exception of the transport
Broken == {t \in Callers : calls[t].resp.kind = "error"}

\* C11: a call that the transport fails raises the transport's own exception, same
\* type and no 'Failed to ...' message, with no result; and a scope exit with an
\* exception propagating still calls close() on the client's session.
TransportErrorPropagates ==
    /\ [](\A t \in Broken :
            /\ calls[t].pc = "raised"
            /\ calls[t].val = PyNone
            /\ calls[t].exc.type = calls[t].resp.type
            /\ calls[t].exc.type \in {"ClientError", "TimeoutError"}
            /\ calls[t].exc.args = <<>>)
    /\ [][(Len(scopes') < Len(scopes) /\ lastExit' = "exceptional") =>
             /\ session # None
             /\ session' = session
             /\ closes'[session] = closes[session] + 1]_vars

\* a get failed with the transport's timeout inside the scope, and the scope was
\* left with the exception propagating and the session closed
TransportErrorPropagatesWitness ==
    /\ \E t \in Broken :
          /\ calls[t].op = "get"
          /\ calls[t].exc.type = "TimeoutError"
          /\ calls[t].session = session
    /\ lastExit = "exceptional"
    /\ scopes = <<>>
    /\ closes[session] = 1

\* C12: the client's base URL is the constructor's URL without its trailing
\* slashes, so that every request URL is the base followed by the path with no
\* doubled slash at the join; the default context identifier is 'default' when
\* none was supplied and the supplied one otherwise; the API key is stored as given.
ConstructionStoresConfig ==
    /\ \E n \in 0..Len(ctor.base_url) :
          /\ base_url = SubSeq(ctor.base_url, 1, n)
          /\ \A i \in (n + 1)..Len(ctor.base_url) : ctor.base_url[i] = "/"
          /\ n > 0 => ctor.base_url[n] # "/"
    /\ api_key = ctor.api_key
    /\ context_id = IF ctor.context_id = PyNone THEN "default" ELSE ctor.context_id.s
    /\ \A t \in Sending :
          /\ calls[t].sent[1].url =
                base_url \o (IF calls[t].op = "list"
                             THEN <<"/", "api", "/", "context", "/", "list">>
                             ELSE <<"/", "api", "/", "context">>)
          /\ calls[t].sent[1].url[Len(base_url) + 1] = "/"
          /\ Len(base_url) > 0 => calls[t].sent[1].url[Len(base_url)] # "/"

\* a client constructed with two trailing slashes, a key ending in a slash and no
\* context identifier has sent a list request
ConstructionStoresConfigWitness ==
    /\ ctor.base_url = <<"https://x.test", "/", "/">>
    /\ ctor.api_key = "key/"
    /\ ctor.context_id = PyNone
    /\ \E t \in Sending :
          /\ calls[t].op = "list"
          /\ calls[t].sent[1].url = <<"https://x.test", "/", "api", "/", "context", "/", "list">>

\* C13: every call made with a session set hands exactly one request to the
\* session, while it waits and after it has ended, whatever the outcome; the
\* resumption ends the call, and a non-200 status or an exception of the
\* transport ends it as raised.
OneRequestPerCall ==
    \A t \in Callers :
        (calls[t].session # None /\ calls[t].pc # "idle") =>
            /\ Len(calls[t].sent) = 1
            /\ calls[t].pc = "awaiting" <=> calls[t].resp.kind = "none"
            /\ calls[t].resp.kind = "error" => calls[t].pc = "raised"
            /\ (calls[t].resp.kind = "response" /\ calls[t].resp.status # 200) =>
                  calls[t].pc = "raised"

\* a save answered 200 with a body that is not JSON has raised after one request
OneRequestPerCallWitness ==
    \E t \in Answered :
        /\ calls[t].op = "save"
        /\ calls[t].resp.status = 200
        /\ calls[t].resp.body = TextForbidden
        /\ calls[t].pc = "raised"
        /\ Len(calls[t].sent) = 1

\* C14: no step changes the client's base URL, API key or default context
\* identifier; and a call made without an identifier, whatever calls came before
\* it, sends the default the client was constructed with.
ConfigNeverChanges ==
    /\ [][/\ base_url' = base_url
          /\ api_key' = api_key
          /\ context_id' = context_id]_vars
    /\ [](\A t \in Sending :
            (calls[t].op # "list" /\ calls[t].args.context_id = PyNone) =>
                calls[t].sent[1].kwargs.headers["X-Context-ID"] =
                    (IF ctor.context_id = PyNone THEN "default" ELSE ctor.context_id.s))

\* after a scope was left, a save given the identifier c1 has returned and the
\* client's default is still the one it was constructed with
ConfigNeverChangesWitness ==
    /\ lastExit # "none"
    /\ ctor.context_id = PyNone
    /\ context_id = "default"
    /\ \E t \in Sending :
          /\ calls[t].op = "save"
          /\ calls[t].args.context_id = PyStr("c1")
          /\ calls[t].sent[1].kwargs.headers["X-Context-ID"] = "c1"
          /\ calls[t].pc = "returned"

\* C15: no call hands a request to a session on which close() has been called.
NoRequestOnClosedSession == \A t \in Sending : ~calls[t].sent[1].closed

\* C16: no created session has close() called on it more than once, and once
\* every entered scope has been left every created session has been closed.
SessionsClosedOnce ==
    /\ \A s \in 1..Len(closes) : closes[s] <= 1
    /\ scopes = <<>> => \A s \in 1..Len(closes) : closes[s] = 1

====
